---- MODULE Spec2Model ----
(***************************************************************************)
(* Model of src/ai_code_executer.py: the dependency installer, the         *)
(* execution sandbox (execute_code) and the three repair loops (run,       *)
(* _handle_search, _handle_file_upload) of AiCodeExecuter.                 *)
(*                                                                         *)
(* Texts (report bodies, pip output, stderr, agent replies) are sequences  *)
(* of tokens; substring tests of the source become contiguous-subsequence  *)
(* tests on tokens, and str.lower() maps every token to its lower case.    *)
(***************************************************************************)
EXTENDS Integers, Sequences, FiniteSets, TLC

\* ------------------------------------------------------------------ bounds

\* Longest snippet, in lines, that the agent returns in the model.
MaxLines == 2

\* ------------------------------------------------------- program constants

max_code_retries == 3

max_dependency_install_retries == 3

timeout_seconds == 60

STANDARD_LIBRARY_MODULES ==
    { "os", "sys", "re", "tempfile", "subprocess", "traceback", "io", "json",
      "datetime", "collections", "math", "random", "argparse", "logging",
      "unittest", "itertools", "functools", "pathlib", "shutil", "time",
      "threading", "multiprocessing", "socket", "http", "urllib", "csv",
      "xml", "zipfile", "tarfile", "gzip", "bz2", "lzma", "hashlib", "hmac",
      "ssl", "asyncio", "concurrent", "contextlib", "dataclasses", "enum",
      "glob", "inspect", "pickle", "pprint", "queue", "signal", "statistics",
      "struct", "typing", "uuid", "warnings", "weakref", "webbrowser",
      "zoneinfo", "google", "colorama", "dotenv", "tkinter", "tk", "Tkinter" }

PACKAGE_INSTALL_MAPPING ==
    [ k \in { "PIL", "sklearn", "cv2", "bs4", "matplotlib.pyplot", "yaml" } |->
        CASE k = "PIL" -> "pillow"
          [] k = "sklearn" -> "scikit-learn"
          [] k = "cv2" -> "opencv-python"
          [] k = "bs4" -> "beautifulsoup4"
          [] k = "matplotlib.pyplot" -> "matplotlib"
          [] k = "yaml" -> "pyyaml" ]

\* -------------------------------------------------------------------- text

\* Tokens that str.strip() removes and that the regex class \s matches.
Whitespace == { " ", "\n" }

\* str.lower() on one token: the tokens of the model that hold a capital.
Lower(tok) ==
    CASE tok = "Timed Out" -> "timed out"
      [] tok = "Error:" -> "error:"
      [] tok = "Error executing code:" -> "error executing code:"
      [] tok = "Code execution" -> "code execution"
      [] tok = "Failed to install" -> "failed to install"
      [] tok = ". Pip:" -> ". pip:"
      [] tok = "Error during pip install for" -> "error during pip install for"
      [] tok = "PIL" -> "pil"
      [] tok = "ZeroDivisionError" -> "zerodivisionerror"
      [] tok = "Read" -> "read"
      [] tok = "No matching distribution" -> "no matching distribution"
      [] tok = "Errno 2" -> "errno 2"
      [] tok = "Errno 8" -> "errno 8"
      [] tok = "Traceback" -> "traceback"
      [] OTHER -> tok

\* text.lower()
LowerText(t) == [i \in 1..Len(t) |-> Lower(t[i])]

\* phrase in text
Contains(t, phrase) ==
    \E i \in 1..(Len(t) - Len(phrase) + 1) :
        SubSeq(t, i, i + Len(phrase) - 1) = phrase

\* not text.strip()
IsBlank(t) == \A i \in 1..Len(t) : t[i] \in Whitespace

\* "timed out" in output.lower()
SaysTimedOut(t) == Contains(LowerText(t), <<"timed out">>)

\* -------------------------------------------------- _extract_dependencies

\* Tokens the character class [a-zA-Z0-9_]+ matches as a whole.
Identifiers ==
    STANDARD_LIBRARY_MODULES \cup
    { "numpy", "requests", "PIL", "Image", "path", "import", "from", "as" }

\* Index of the first token of the line at or after i that is not whitespace
\* (Len(line) + 1 when there is none).
RECURSIVE SkipSpace(_, _)
SkipSpace(line, i) ==
    IF i > Len(line) THEN i
    ELSE IF line[i] \in Whitespace THEN SkipSpace(line, i + 1)
    ELSE i

\* re.match(r"^\s*(?:import|from)\s+([a-zA-Z0-9_]+)(?:[.\s]|$)", line):
\* <<name>> when the line matches, <<>> when it does not.
ImportMatch(line) ==
    LET k == SkipSpace(line, 1)
        m == SkipSpace(line, k + 1)
    IN  IF /\ k <= Len(line)
           /\ line[k] \in { "import", "from" }
           /\ m > k + 1
           /\ m <= Len(line)
           /\ line[m] \in Identifiers
           /\ (m = Len(line) \/ line[m + 1] \in Whitespace \cup { "." })
        THEN << line[m] >>
        ELSE << >>

\* The last word of a matching line collected instead of the captured name.
_extract_dependencies_LastWord(code) ==
    { code[i][Len(code[i])] :
        i \in { j \in 1..Len(code) :
                  /\ ImportMatch(code[j]) /= << >>
                  /\ ImportMatch(code[j])[1] \notin STANDARD_LIBRARY_MODULES } }

_extract_dependencies_KeepsExempt(code) ==
    { ImportMatch(code[i])[1] :
        i \in { j \in 1..Len(code) : ImportMatch(code[j]) /= << >> } }

\* The set the function builds; list(dependencies) is it in an arbitrary order.
_extract_dependencies(code) ==
    { ImportMatch(code[i])[1] :
        i \in { j \in 1..Len(code) :
                  /\ ImportMatch(code[j]) /= << >>
                  /\ ImportMatch(code[j])[1] \notin STANDARD_LIBRARY_MODULES } }

\* ----------------------------------------------------- _install_dependency

\* What one subprocess.run of pip can do: exit with a return code and its
\* captured output, or raise (the executable is missing, ...).
PipErrTexts == { << "No matching distribution" >>, << "Read", "timed out" >> }

PipResults ==
    { [raised |-> FALSE, returncode |-> 0, out |-> << "Successfully installed" >>] }
    \cup { [raised |-> FALSE, returncode |-> 1, out |-> t] : t \in PipErrTexts }
    \cup { [raised |-> TRUE, returncode |-> 0, out |-> << "Errno 2" >>] }

\* The lookup forgotten: the module name goes to the package manager as it is.
InstallName_Unmapped(dep) == dep

\* PACKAGE_INSTALL_MAPPING.get(dep, dep)
InstallName(dep) ==
    IF dep \in DOMAIN PACKAGE_INSTALL_MAPPING THEN PACKAGE_INSTALL_MAPPING[dep] ELSE dep

\* One package-manager invocation as the call log records it.
PipCall(argv, r) ==
    [ev |-> "pip", args |-> argv, out |-> r.out,
     res |-> IF r.raised THEN "raise" ELSE IF r.returncode = 0 THEN "ok" ELSE "fail"]

\* f"Failed to install {dep}. Pip:\n{stdout}\n{stderr}"
FailedToInstallMsg(dep, r) == << "Failed to install", dep, ". Pip:" >> \o r.out

\* f"Error during pip install for {dep}: {e}"
PipExceptionMsg(dep, r) == << "Error during pip install for", dep >> \o r.out

\* Whether the retry branch is taken after a failed first attempt.
RetryAllowed(retry_count) == retry_count < max_dependency_install_retries

\* The retry made a loop that runs until max_dependency_install_retries is used up.
AfterFirstFailure_Loop(dep, retry_count, r1, r2) ==
    LET first == PipCall(<< "install", InstallName(dep) >>, r1)
        retry == PipCall(<< "install", "--no-cache-dir", InstallName(dep) >>, r2)
        tries == IF r2.raised \/ r2.returncode = 0 THEN 1
                 ELSE max_dependency_install_retries - retry_count
    IN  [success |-> ~r2.raised /\ r2.returncode = 0,
         error_msg |-> IF ~r2.raised /\ r2.returncode = 0 THEN << >>
                       ELSE FailedToInstallMsg(dep, r1),
         calls |-> << first >> \o [i \in 1..tries |-> retry]]

\* What is returned once the first attempt has exited non-zero: r2 is what the
\* --no-cache-dir invocation does when it is made.
AfterFirstFailure(dep, retry_count, r1, r2) ==
    LET first == PipCall(<< "install", InstallName(dep) >>, r1)
        retry == PipCall(<< "install", "--no-cache-dir", InstallName(dep) >>, r2)
        error_msg == FailedToInstallMsg(dep, r1)
    IN  IF ~RetryAllowed(retry_count)
        THEN [success |-> FALSE, error_msg |-> error_msg, calls |-> << first >>]
        ELSE IF r2.raised
        THEN [success |-> FALSE, error_msg |-> PipExceptionMsg(dep, r2),
              calls |-> << first, retry >>]
        ELSE IF r2.returncode = 0
        THEN [success |-> TRUE, error_msg |-> << >>, calls |-> << first, retry >>]
        ELSE [success |-> FALSE, error_msg |-> error_msg, calls |-> << first, retry >>]

\* _install_dependency(dep, retry_count): the (success, error_msg) pair it
\* returns and the package-manager invocations it makes, r1 and r2 being what
\* the first invocation and the retry do.
_install_dependency(dep, retry_count, r1, r2) ==
    IF dep \in STANDARD_LIBRARY_MODULES
    THEN [success |-> TRUE, error_msg |-> << "Skipped", dep >>, calls |-> << >>]
    ELSE IF r1.raised
    THEN [success |-> FALSE, error_msg |-> PipExceptionMsg(dep, r1),
          calls |-> << PipCall(<< "install", InstallName(dep) >>, r1) >>]
    ELSE IF r1.returncode = 0
    THEN [success |-> TRUE, error_msg |-> << >>,
          calls |-> << PipCall(<< "install", InstallName(dep) >>, r1) >>]
    ELSE AfterFirstFailure(dep, retry_count, r1, r2)

\* ------------------------------------------------------------ extract_code

\* An agent reply is a sequence of parts: prose, the opening fence ```python,
\* the closing fence ```, and the lines between fences.
Prose == [kind |-> "prose", lines |-> << >>]

FenceOpen == [kind |-> "open", lines |-> << >>]

FenceClose == [kind |-> "close", lines |-> << >>]

CodePart(lines) == [kind |-> "code", lines |-> lines]

Min(S) == CHOOSE x \in S : \A y \in S : x <= y

RECURSIVE JoinLines(_, _, _)
JoinLines(text, i, j) ==
    IF i > j THEN << >> ELSE text[i].lines \o JoinLines(text, i + 1, j)

\* re.findall(r"```python\s*(.*?)\s*```", text, re.DOTALL), first match or None.
extract_code(text) ==
    LET opens == { i \in 1..Len(text) :
                     /\ text[i].kind = "open"
                     /\ \E j \in (i + 1)..Len(text) : text[j].kind = "close" }
    IN  IF opens = {}
        THEN [found |-> FALSE, code |-> << >>]
        ELSE LET i == Min(opens)
                 j == Min({ k \in (i + 1)..Len(text) : text[k].kind = "close" })
             IN  [found |-> TRUE, code |-> JoinLines(text, i + 1, j - 1)]

\* `if code:` -- None and the empty string are both false.
Truthy(c) == c.found /\ c.code /= << >>

\* ------------------------------------------------------------------ inputs

SnippetLines ==
    { << "import", " ", "numpy" >>,
      << " ", "from", " ", "PIL", " ", "import", " ", "Image" >>,
      << "import", " ", "os", ".", "path" >>,
      << "import", " ", "numpy", ",", "pandas" >>,
      << "print(1/0)" >> }

Snippets == UNION { [1..n -> SnippetLines] : n \in 0..MaxLines }

Replies ==
    { << Prose >> }
    \cup { << Prose, FenceOpen, CodePart(sn), FenceClose, Prose >> : sn \in Snippets }
    \cup { << FenceOpen, CodePart(sn) >> : sn \in Snippets }

\* chat_session.send_message: it raises, or returns a reply.
AgentResults ==
    { [raised |-> TRUE, text |-> << >>] }
    \cup { [raised |-> FALSE, text |-> t] : t \in Replies }

StdoutTexts == { << "42" >>, << "job", "timed out" >> }

StderrTexts ==
    { << >>, << "\n" >>, << "Traceback", "ZeroDivisionError" >>, << "socket", "Timed Out" >> }

\* subprocess.run of the interpreter: the child exits, the wait times out, or
\* the launch raises.
RunResults ==
    { [kind |-> "exit", returncode |-> 0, stdout |-> t, stderr |-> << >>] : t \in StdoutTexts }
    \cup { [kind |-> "exit", returncode |-> 1, stdout |-> << >>, stderr |-> t] : t \in StderrTexts }
    \cup { [kind |-> "exit", returncode |-> 2, stdout |-> << >>, stderr |-> << >>] }
    \cup { [kind |-> "timeout", returncode |-> 0, stdout |-> << >>, stderr |-> << >>] }
    \cup { [kind |-> "raise", returncode |-> 0, stdout |-> << >>, stderr |-> << "Errno 8" >>] }

\* ------------------------------------------------------------------- state

VARIABLES
    handler,              \* the handler whose repair loop ran last or is running
    pc,                   \* "setup", "constructed", "input", "executing", "loop", "final",
                          \* "done", "exited", "terminated"; "call", "direct", "returned"
                          \* in the specification of single calls
    retry_count,          \* the loop's retry_count
    output,               \* the loop's output (last report body)
    exit_code,            \* the loop's exit_code (last report status)
    log,                  \* what the session did so far: executions, fix requests, ...
    fix_request,          \* the fix request sent last
    final,                \* the result_message sent last
    epc,                  \* position in execute_code: "none", "install", "write", "run", "cleanup"
    retry_arg,            \* execute_code's retry_count argument
    dependencies,         \* what _extract_dependencies returned
    pending,              \* the dependencies the for loop has not reached yet
    failed_dependencies,  \* (dep, error_msg) pairs
    outcome,              \* what the last _install_dependency call returned and did
    callLog,              \* what the current execute_code call did to the host
    output_str,
    process_result,
    tempFile,             \* the call's transient file: "absent", "exists", "deleted"
    cls,                  \* how the call ended: the report's classification
    os_name,              \* os.name: "nt" or "posix"
    venvExists,           \* os.path.exists(venv_python_path), on disk
    venv_python_path,
    venv_pip_path,
    ensure,               \* what the constructor's _ensure_venv call found and did
    snippet               \* the argument of a single execute_code call

sessionVars == << handler, pc, retry_count, output, exit_code, log, fix_request, final >>

callVars ==
    << epc, retry_arg, dependencies, pending, failed_dependencies, outcome,
       callLog, output_str, process_result, tempFile, cls >>

envVars == << os_name, venvExists, venv_python_path, venv_pip_path, ensure >>

vars == << sessionVars, callVars, envVars, snippet >>

None == [set |-> FALSE, returncode |-> 0]

NoOutcome == [dep |-> "", success |-> TRUE, error_msg |-> << >>, calls |-> << >>]

NoFinal == [kind |-> "none", body |-> << >>]

NoFix == [sent |-> FALSE, body |-> << >>, note |-> FALSE, cls |-> "none"]

Event(ev, arg) == [ev |-> ev, arg |-> arg]

HostEvent(ev, res) == [ev |-> ev, args |-> << >>, out |-> << >>, res |-> res]

NoPath == << >>

NoEnsure == [called |-> FALSE, found |-> FALSE, created |-> "none"]

OsNames == { "nt", "posix" }

\* What a process holds in memory when it starts.
Fresh ==
    /\ handler = "run"
    /\ retry_count = 0
    /\ output = << >>
    /\ exit_code = 0
    /\ log = << >>
    /\ fix_request = NoFix
    /\ final = NoFinal
    /\ epc = "none"
    /\ retry_arg = 0
    /\ dependencies = {}
    /\ pending = {}
    /\ failed_dependencies = << >>
    /\ outcome = NoOutcome
    /\ callLog = << >>
    /\ output_str = << >>
    /\ process_result = None
    /\ tempFile = "absent"
    /\ cls = "none"

\* The program is started: nothing is constructed yet, and the working
\* directory holds the environment of an earlier run or none.
Init ==
    /\ Fresh
    /\ pc = "setup"
    /\ os_name \in OsNames
    /\ venvExists \in BOOLEAN
    /\ venv_python_path = NoPath
    /\ venv_pip_path = NoPath
    /\ ensure = NoEnsure
    /\ snippet = << >>

\* ------------------------------------------------------------ execute_code

\* The call up to its first blocking operation: the dependencies are
\* extracted; with none, the call goes on to the transient file.
StartCall(deps, retry) ==
    /\ pc' = "executing"
    /\ retry_arg' = retry
    /\ dependencies' = deps
    /\ pending' = deps
    /\ epc' = IF deps = {} THEN "write" ELSE "install"
    /\ failed_dependencies' = << >>
    /\ outcome' = NoOutcome
    /\ callLog' = << >>
    /\ output_str' = << >>
    /\ process_result' = None
    /\ tempFile' = "absent"
    /\ cls' = "none"

\* execute_code(code, retry_count) up to its install loop.
EnterExecuteCode(code, retry) == StartCall(_extract_dependencies(code), retry)

\* The log keeps of an execution whether it succeeded, timed out or failed
\* otherwise; cls holds the classification of the last one.
Coarse(class) == IF class \in { "Success", "Timeout" } THEN class ELSE "Failure"

\* The increment forgotten.
CountAfterReturn_Unchanged(retries, retry) == IF retry > 0 THEN retries ELSE 0

\* `retry_count = 0` after the first execution, `retry_count += 1` after a
\* re-execution (retry is the retry number the call was given).
CountAfterReturn(retries, retry) == IF retry > 0 THEN retries + 1 ELSE 0

\* execute_code returns (body, status) to the loop that called it; after a
\* re-execution the loop does retry_count += 1.
ReturnToLoop(body, status, class) ==
    /\ pc' = "loop"
    /\ epc' = "none"
    /\ output' = body
    /\ exit_code' = status
    /\ cls' = class
    /\ retry_count' = CountAfterReturn(retry_count, retry_arg)
    /\ log' = Append(log, Event("exec", Coarse(class)))
    /\ UNCHANGED << handler, fix_request, final, retry_arg, dependencies >>

\* An exception leaves the handler's try block: the handler prints it and
\* the session is over.
Abort(where) ==
    /\ pc' = "done"
    /\ epc' = "none"
    /\ log' = Append(log, Event("abort", where))
    /\ UNCHANGED << handler, retry_count, output, exit_code, fix_request, final >>

\* The report stops at the first failure.
FailureLines_FirstOnly(failed) ==
    IF failed = << >> THEN << >>
    ELSE << "-", Head(failed).dep, ":" >> \o Head(failed).error \o << "\n" >>

\* "Failed to install dependencies:\n" and one "- dep: error\n" per failure
RECURSIVE FailureLines(_)
FailureLines(failed) ==
    IF failed = << >> THEN << >>
    ELSE << "-", Head(failed).dep, ":" >> \o Head(failed).error \o << "\n" >>
         \o FailureLines(Tail(failed))

FailureMessage(failed) == << "Failed to install", "dependencies:", "\n" >> \o FailureLines(failed)

\* The gate left out: the call goes on whatever failed.
GateFails_Never(failed) == FALSE

\* `if failed_dependencies:` after the install loop
GateFails(failed) == failed /= << >>

\* One iteration of `for dep in dependencies` (one _install_dependency call);
\* after the last one the dependency gate either returns the failure report
\* or lets the call go on.
InstallDependency ==
    /\ pc = "executing"
    /\ epc = "install"
    /\ \E dep \in pending, r1 \in PipResults, r2 \in PipResults :
         LET o == _install_dependency(dep, 0, r1, r2)
             failed == IF o.success THEN failed_dependencies
                       ELSE Append(failed_dependencies, [dep |-> dep, error |-> o.error_msg])
         IN  /\ outcome' = [dep |-> dep, success |-> o.success,
                            error_msg |-> o.error_msg, calls |-> o.calls]
             /\ callLog' = callLog \o o.calls
             /\ failed_dependencies' = failed
             /\ pending' = pending \ { dep }
             /\ IF pending \ { dep } /= {}
                THEN /\ UNCHANGED << sessionVars, epc, cls >>
                ELSE IF GateFails(failed)
                THEN ReturnToLoop(FailureMessage(failed), -1, "DependencyFailure")
                ELSE /\ epc' = "write"
                     /\ UNCHANGED << sessionVars, cls >>
    /\ UNCHANGED << retry_arg, dependencies, output_str, process_result, tempFile >>
    /\ UNCHANGED << envVars, snippet >>

\* `with tempfile.NamedTemporaryFile(...) as temp_file: temp_file.write(code)`,
\* which stands before the try block: a fault here leaves execute_code as an
\* exception, and a fault of the write leaves the file behind.
WriteTempFile ==
    /\ pc = "executing"
    /\ epc = "write"
    /\ \E how \in { "ok", "create_fault", "write_fault" } :
         /\ tempFile' = IF how = "create_fault" THEN "absent" ELSE "exists"
         /\ callLog' = Append(callLog, HostEvent("mktemp", how))
         /\ IF how = "ok"
            THEN /\ epc' = "run"
                 /\ UNCHANGED sessionVars
            ELSE Abort("execute_code")
    /\ UNCHANGED << retry_arg, dependencies, pending, failed_dependencies, outcome,
                    output_str, process_result, cls >>
    /\ UNCHANGED << envVars, snippet >>

\* The launch as the call log records it: the child's exit status when it
\* exited, and what it wrote.
LaunchEvent(r) ==
    [ev |-> "launch",
     args |-> IF r.kind = "exit" THEN << ToString(r.returncode) >> ELSE << >>,
     out |-> r.stdout \o r.stderr,
     res |-> r.kind]

\* The error stream returned as it is, blank or not.
Classify_RawStderr(r) ==
    IF r.kind = "exit" /\ r.returncode = 0
    THEN [output_str |-> r.stdout, cls |-> "Success",
          process_result |-> [set |-> TRUE, returncode |-> 0]]
    ELSE IF r.kind = "exit"
    THEN [output_str |-> r.stderr, cls |-> "RuntimeFailure",
          process_result |-> [set |-> TRUE, returncode |-> r.returncode]]
    ELSE IF r.kind = "timeout"
    THEN [output_str |-> << "Error:", "Code execution", "timed out", "(",
                            ToString(timeout_seconds), "s)" >>,
          cls |-> "Timeout", process_result |-> None]
    ELSE [output_str |-> << "Error executing code:" >> \o r.stderr \o << "Traceback" >>,
          cls |-> "InternalError", process_result |-> None]

\* The report body and classification for what subprocess.run did.
Classify(r) ==
    IF r.kind = "exit" /\ r.returncode = 0
    THEN [output_str |-> r.stdout, cls |-> "Success",
          process_result |-> [set |-> TRUE, returncode |-> 0]]
    ELSE IF r.kind = "exit"
    THEN [output_str |->
              IF IsBlank(r.stderr)
              THEN << "Error:", "Code failed (exit code", ToString(r.returncode),
                      "), empty stderr." >>
              ELSE << "Error:" >> \o r.stderr,
          cls |-> "RuntimeFailure",
          process_result |-> [set |-> TRUE, returncode |-> r.returncode]]
    ELSE IF r.kind = "timeout"
    THEN [output_str |-> << "Error:", "Code execution", "timed out", "(",
                            ToString(timeout_seconds), "s)" >>,
          cls |-> "Timeout", process_result |-> None]
    ELSE [output_str |-> << "Error executing code:" >> \o r.stderr \o << "Traceback" >>,
          cls |-> "InternalError", process_result |-> None]

\* `if process_result and hasattr(process_result, 'pid')` in the timeout handler
KillGuard(pr) == pr.set

\* The try block: the interpreter runs the file.
RunInterpreter ==
    /\ pc = "executing"
    /\ epc = "run"
    /\ \E r \in RunResults :
         LET c == Classify(r)
         IN  /\ output_str' = c.output_str
             /\ process_result' = c.process_result
             /\ cls' = c.cls
             /\ callLog' = callLog \o << LaunchEvent(r) >>
                           \o (IF r.kind = "timeout" /\ KillGuard(c.process_result)
                               THEN << HostEvent("kill", "ok") >> ELSE << >>)
    /\ epc' = "cleanup"
    /\ UNCHANGED << sessionVars, retry_arg, dependencies, pending, failed_dependencies,
                    outcome, tempFile >>
    /\ UNCHANGED << envVars, snippet >>

\* `return output_str, process_result.returncode if process_result else -1`
ExitStatus(pr) == IF pr.set THEN pr.returncode ELSE -1

\* A failed delete leaves execute_code as an exception.
Cleanup_Escalates ==
    /\ pc = "executing"
    /\ epc = "cleanup"
    /\ \E deleted \in BOOLEAN :
         /\ tempFile' = IF deleted THEN "deleted" ELSE tempFile
         /\ callLog' = Append(callLog, HostEvent("unlink", IF deleted THEN "ok" ELSE "fail"))
         /\ IF deleted
            THEN ReturnToLoop(output_str, ExitStatus(process_result), cls)
            ELSE Abort("execute_code") /\ UNCHANGED << retry_arg, dependencies, cls >>
    /\ UNCHANGED << pending, failed_dependencies, outcome, output_str, process_result >>
    /\ UNCHANGED << envVars, snippet >>

\* The finally block (os.unlink, a failure is printed) and the return.
Cleanup ==
    /\ pc = "executing"
    /\ epc = "cleanup"
    /\ \E deleted \in BOOLEAN :
         /\ tempFile' = IF deleted THEN "deleted" ELSE tempFile
         /\ callLog' = Append(callLog, HostEvent("unlink", IF deleted THEN "ok" ELSE "fail"))
    /\ ReturnToLoop(output_str, ExitStatus(process_result), cls)
    /\ UNCHANGED << pending, failed_dependencies, outcome, output_str, process_result >>
    /\ UNCHANGED << envVars, snippet >>

\* ------------------------------------------------------------ repair loops

\* The loop without its budget.
LoopCondition_NoBudget(status, retries, body) ==
    /\ status /= 0
    /\ ~SaysTimedOut(body)

\* The loop without its test of the exit status.
LoopCondition_IgnoresStatus(status, retries, body) ==
    /\ retries < max_code_retries
    /\ ~SaysTimedOut(body)

\* The loop without its test for a timeout.
LoopCondition_RetriesTimeout(status, retries, body) ==
    /\ status /= 0
    /\ retries < max_code_retries

\* The loop with its budget test off by one.
LoopCondition_OffByOne(status, retries, body) ==
    /\ status /= 0
    /\ retries <= max_code_retries
    /\ ~SaysTimedOut(body)

\* `while exit_code != 0 and retry_count < self.max_code_retries
\*        and "timed out" not in output.lower()`
LoopCondition(status, retries, body) ==
    /\ status /= 0
    /\ retries < max_code_retries
    /\ ~SaysTimedOut(body)

\* The substring that makes the loop add the dependency note to a fix request:
\* "Failed to install" in run and _handle_search, and
\* "Failed to install the following dependencies:" in _handle_file_upload.
DependencyNote(h, body) ==
    IF h = "upload"
    THEN Contains(body, << "Failed to install", "the following dependencies:" >>)
    ELSE Contains(body, << "Failed to install" >>)

\* The result message without its test for a timeout.
ResultMessage_FailedOnly(status, body) ==
    IF status = 0 THEN [kind |-> "success", body |-> body]
    ELSE [kind |-> "failed", body |-> body]

\* result_message: which of the three messages, and the report body it quotes.
ResultMessage(status, body) ==
    IF status = 0 THEN [kind |-> "success", body |-> body]
    ELSE IF SaysTimedOut(body) THEN [kind |-> "timeout", body |-> << >>]
    ELSE [kind |-> "failed", body |-> body]

\* What decides a handler's step after chat_session.send_message: the fault,
\* whether extract_code finds code in the reply's text, and the dependencies
\* execute_code extracts from that code.
ExtractedReplies ==
    { [raised |-> a.raised,
       truthy |-> ~a.raised /\ Truthy(extract_code(a.text)),
       dependencies |-> IF ~a.raised /\ Truthy(extract_code(a.text))
                        THEN _extract_dependencies(extract_code(a.text).code)
                        ELSE {}] : a \in AgentResults }

\* A handler sends the user's request to the agent and, when the reply holds
\* code, calls execute_code on it.
Submit(h) ==
    /\ pc = "input"
    /\ handler' = h
    /\ \E a \in ExtractedReplies :
         IF a.raised
         THEN /\ pc' = "done"
              /\ log' = << Event("abort", "agent") >>
              /\ UNCHANGED callVars
         ELSE IF ~a.truthy
         THEN /\ pc' = "done"
              /\ log' = << >>
              /\ UNCHANGED callVars
         ELSE /\ log' = << >>
              /\ StartCall(a.dependencies, 0)
    /\ UNCHANGED << retry_count, output, exit_code, fix_request, final >>
    /\ UNCHANGED << envVars, snippet >>

\* The user types a request: the try block of run's loop.
run == Submit("run")

\* The user types `search <query>`.
_handle_search == Submit("search")

\* The user types `upload <filepath> [with prompt <prompt>]`.
_handle_file_upload == Submit("upload")

\* The loop goes round again while the budget lasts.
AfterNoCode_Continues(retries) == IF retries < max_code_retries THEN "loop" ELSE "final"

\* `else: ... break`: a reply without code leaves the loop for the result message.
AfterNoCode(retries) == "final"

\* The loop body: the fix request, and the re-execution when the reply holds code.
RequestFix ==
    /\ pc = "loop"
    /\ LoopCondition(exit_code, retry_count, output)
    /\ \E a \in ExtractedReplies :
         LET sent == Append(log, Event("fix", ""))
         IN  IF a.raised
             THEN /\ pc' = "done"
                  /\ log' = Append(sent, Event("abort", "agent"))
                  /\ UNCHANGED callVars
             ELSE IF ~a.truthy
             THEN /\ pc' = AfterNoCode(retry_count)
                  /\ log' = Append(sent, Event("nocode", ""))
                  /\ UNCHANGED callVars
             ELSE /\ log' = sent
                  /\ StartCall(a.dependencies, retry_count + 1)
    /\ fix_request' = [sent |-> TRUE, body |-> output,
                       note |-> DependencyNote(handler, output), cls |-> cls]
    /\ UNCHANGED << handler, retry_count, output, exit_code, final >>
    /\ UNCHANGED << envVars, snippet >>

\* The while condition is false: the loop is left.
ExitLoop ==
    /\ pc = "loop"
    /\ ~LoopCondition(exit_code, retry_count, output)
    /\ pc' = "final"
    /\ UNCHANGED << handler, retry_count, output, exit_code, log, fix_request, final,
                    callVars >>
    /\ UNCHANGED << envVars, snippet >>

\* result_message is built and sent to the agent.
SendResultMessage ==
    /\ pc = "final"
    /\ pc' = "done"
    /\ final' = ResultMessage(exit_code, output)
    /\ \E a \in { "ok", "raise" } :
         log' = IF a = "ok"
                THEN Append(log, Event("final", ResultMessage(exit_code, output).kind))
                ELSE Append(log, Event("abort", "agent"))
    /\ UNCHANGED << handler, retry_count, output, exit_code, fix_request, callVars >>
    /\ UNCHANGED << envVars, snippet >>

\* The user types exit, quit or bye.
UserExit ==
    /\ pc = "input"
    /\ pc' = "exited"
    /\ UNCHANGED << handler, retry_count, output, exit_code, log, fix_request, final,
                    callVars >>
    /\ UNCHANGED << envVars, snippet >>

\* Every local of a finished session or process is dropped.
Reset ==
    /\ handler' = "run"
    /\ retry_count' = 0
    /\ output' = << >>
    /\ exit_code' = 0
    /\ log' = << >>
    /\ fix_request' = NoFix
    /\ final' = NoFinal
    /\ epc' = "none"
    /\ retry_arg' = 0
    /\ dependencies' = {}
    /\ pending' = {}
    /\ failed_dependencies' = << >>
    /\ outcome' = NoOutcome
    /\ callLog' = << >>
    /\ output_str' = << >>
    /\ process_result' = None
    /\ tempFile' = "absent"
    /\ cls' = "none"

\* The handler is over and the prompt loop goes on (`continue`): what the
\* finished session left in its locals is not used again.
Continue ==
    /\ pc = "done"
    /\ pc' = "input"
    /\ Reset
    /\ UNCHANGED << envVars, snippet >>

\* ------------------------------------------------------------ environment

scripts_dir(os) == IF os = "nt" THEN "Scripts" ELSE "bin"

python_exe(os) == IF os = "nt" THEN "python.exe" ELSE "python"

pip_exe(os) == IF os = "nt" THEN "pip.exe" ELSE "pip"

\* os.path.join(os.getcwd(), venv_dir, scripts_dir, exe), as path components.
VenvPath(os, exe) == << "cwd", ".code_exec_venv", scripts_dir(os), exe >>

\* How `python -m venv` ends: exit status 0, CalledProcessError on a
\* non-zero status, or another exception when it cannot be started.
CreateResults == { "ok", "fail", "raise" }

VenvMissing_Always(exists) == TRUE

\* `if not os.path.exists(self.venv_python_path)`
VenvMissing(exists) == ~exists

AfterCreate_Continues(how, next) == next

\* CalledProcessError is handled by sys.exit(1); any other exception leaves
\* _ensure_venv and reaches setup's handler, which calls sys.exit(1) too.
AfterCreate(how, next) == IF how = "ok" THEN next ELSE "terminated"

_ensure_venv(next) ==
    /\ venv_python_path' = VenvPath(os_name, python_exe(os_name))
    /\ venv_pip_path' = VenvPath(os_name, pip_exe(os_name))
    /\ IF VenvMissing(venvExists)
       THEN \E how \in CreateResults :
                /\ ensure' = [called |-> TRUE, found |-> venvExists, created |-> how]
                /\ venvExists' \in (IF how = "ok" THEN { TRUE } ELSE BOOLEAN)
                /\ pc' = AfterCreate(how, next)
       ELSE /\ ensure' = [called |-> TRUE, found |-> venvExists, created |-> "none"]
            /\ pc' = next
            /\ UNCHANGED venvExists

sessionLocals == << handler, retry_count, output, exit_code, log, fix_request, final >>

\* setup(), called by the constructor: the agent connection, then the
\* environment.  A fault of the connection ends the process before
\* _ensure_venv is reached.
setup ==
    /\ pc = "setup"
    /\ \E gemini \in { "ok", "fault" } :
           IF gemini = "fault"
           THEN /\ pc' = "terminated"
                /\ UNCHANGED envVars
           ELSE /\ _ensure_venv("constructed")
                /\ UNCHANGED os_name
    /\ UNCHANGED << sessionLocals, callVars, snippet >>

\* run() up to its prompt loop: the environment is ensured again only when
\* the constructor left no interpreter path.
RunStart ==
    /\ pc = "constructed"
    /\ IF venv_python_path = NoPath
       THEN _ensure_venv("input")
       ELSE /\ pc' = "input"
            /\ ensure' = NoEnsure
            /\ UNCHANGED << venvExists, venv_python_path, venv_pip_path >>
    /\ UNCHANGED << os_name, sessionLocals, callVars, snippet >>

\* The program is started again in the same working directory: what is on
\* disk stays, what was in memory is gone.
Restart ==
    /\ pc \in { "exited", "terminated" }
    /\ pc' = "setup"
    /\ Reset
    /\ venv_python_path' = NoPath
    /\ venv_pip_path' = NoPath
    /\ ensure' = NoEnsure
    /\ UNCHANGED << os_name, venvExists, snippet >>

Next ==
    \/ run
    \/ _handle_search
    \/ _handle_file_upload
    \/ InstallDependency
    \/ WriteTempFile
    \/ RunInterpreter
    \/ Cleanup
    \/ RequestFix
    \/ ExitLoop
    \/ SendResultMessage
    \/ UserExit
    \/ Continue
    \/ setup
    \/ RunStart
    \/ Restart

Spec == Init /\ [][Next]_vars

\* A step of a running session: the handler is sequential code, so the step
\* it has reached is taken once the call it waits for comes back.
SessionStep ==
    \/ InstallDependency
    \/ WriteTempFile
    \/ RunInterpreter
    \/ Cleanup
    \/ RequestFix
    \/ ExitLoop
    \/ SendResultMessage

\* A constructed executor at the prompt of run().
InitSession ==
    /\ Fresh
    /\ pc = "input"
    /\ os_name \in OsNames
    /\ venvExists = TRUE
    /\ venv_python_path = VenvPath(os_name, python_exe(os_name))
    /\ venv_pip_path = VenvPath(os_name, pip_exe(os_name))
    /\ ensure = NoEnsure
    /\ snippet = << >>

\* The prompt loop of one process for plain requests: the requests, their
\* sessions, and exit.
NextSession ==
    \/ run
    \/ SessionStep
    \/ UserExit
    \/ Continue

\* The prompt loop when every call of a running session comes back; the
\* user stays free to type nothing more.
FairSpec == InitSession /\ [][NextSession]_vars /\ WF_vars(SessionStep)

\* ------------------------------------------------------------ single calls

\* Names _install_dependency is called with directly.
DirectDependencies == STANDARD_LIBRARY_MODULES \cup { "numpy", "PIL" }

\* A constructed executor on which one method is about to be called once:
\* execute_code(snippet), or _install_dependency(dep, retry_count).
InitCall ==
    /\ Fresh
    /\ os_name \in OsNames
    /\ venvExists = TRUE
    /\ venv_python_path = VenvPath(os_name, python_exe(os_name))
    /\ venv_pip_path = VenvPath(os_name, pip_exe(os_name))
    /\ ensure = NoEnsure
    /\ \/ pc = "call" /\ snippet \in Snippets
       \/ pc = "direct" /\ snippet = << >>

CallExecuteCode ==
    /\ pc = "call"
    /\ EnterExecuteCode(snippet, 0)
    /\ UNCHANGED << sessionLocals, envVars, snippet >>

DirectInstallDependency ==
    /\ pc = "direct"
    /\ \E dep \in DirectDependencies, retry \in 0..max_dependency_install_retries,
          r1 \in PipResults, r2 \in PipResults :
         LET o == _install_dependency(dep, retry, r1, r2)
         IN  /\ outcome' = [dep |-> dep, success |-> o.success,
                            error_msg |-> o.error_msg, calls |-> o.calls]
             /\ callLog' = o.calls
    /\ pc' = "returned"
    /\ UNCHANGED << sessionLocals, epc, retry_arg, dependencies, pending,
                    failed_dependencies, output_str, process_result, tempFile, cls,
                    envVars, snippet >>

NextCall ==
    \/ CallExecuteCode
    \/ DirectInstallDependency
    \/ InstallDependency
    \/ WriteTempFile
    \/ RunInterpreter
    \/ Cleanup

SpecCall == InitCall /\ [][NextCall]_vars

\* ------------------------------------------------------------------ claims

Last(q) == q[Len(q)]

\* The execute_code calls the session has started, and its fix requests.
NumExec ==
    Cardinality({ i \in DOMAIN log : log[i].ev = "exec" })
    + (IF pc = "executing" THEN 1 ELSE 0)

NumFix == Cardinality({ i \in DOMAIN log : log[i].ev = "fix" })

TimeoutBody ==
    << "Error:", "Code execution", "timed out", "(", ToString(timeout_seconds), "s)" >>

\* C1: once an execute_code call has ended by the 60 s timeout, the report
\* says so (body and status -1, and the final message is the timeout one) and
\* the session makes no further execute_code call, whatever budget is left.
C1_TimeoutNeverRetried ==
    \A i \in DOMAIN log :
        (log[i].ev = "exec" /\ log[i].arg = "Timeout") =>
            /\ \A j \in (i + 1)..Len(log) : log[j].ev /= "exec"
            /\ pc /= "executing"
            /\ cls = "Timeout"
            /\ output = TimeoutBody
            /\ exit_code = -1
            /\ final.kind \in { "none", "timeout" }

\* A timeout in the second re-execution, with budget left, and the session over.
C1_Witness ==
    /\ pc = "done"
    /\ cls = "Timeout"
    /\ retry_count = 2
    /\ retry_count < max_code_retries
    /\ final.kind = "timeout"

\* C2 as stated: a session never performs more executions than
\* max_code_retries, counting the first one.
C2_AtMostMaxExecutions == NumExec <= max_code_retries

\* C2 amended: a session performs at most 1 + max_code_retries executions,
\* the first one and max_code_retries re-executions; a session that has used
\* up its budget with a failing last report has made exactly that many.
C2_AtMostOnePlusMaxExecutions ==
    /\ NumExec <= 1 + max_code_retries
    /\ (pc \in { "final", "done" } /\ exit_code /= 0 /\ retry_count = max_code_retries)
           => NumExec = 1 + max_code_retries

\* Four runtime failures in a row, each but the last repaired by the agent.
C2_Witness ==
    /\ pc = "done"
    /\ cls = "RuntimeFailure"
    /\ retry_count = max_code_retries
    /\ NumExec = 4
    /\ NumFix = 3
    /\ final.kind = "failed"

\* C3: retry_count never exceeds max_code_retries, and a loop that holds a
\* failing report with retry_count = max_code_retries is left for the final
\* message without any fix request.
C3_CounterBounded ==
    /\ [](retry_count <= max_code_retries)
    /\ [][(pc = "loop" /\ retry_count = max_code_retries /\ exit_code /= 0)
             => (pc' = "final" /\ log' = log /\ fix_request' = fix_request)]_vars

\* The budget used up with a failing report.
C3_Witness ==
    /\ pc = "final"
    /\ retry_count = max_code_retries
    /\ exit_code /= 0
    /\ NumFix = max_code_retries

\* C4: a loop is left right after a report classified RuntimeFailure,
\* DependencyFailure or InternalError only when the budget is used up: with
\* budget left such a report leads to a fix request, whatever its body says.
C4_RetryByClassification ==
    (/\ pc = "final"
     /\ Last(log).ev = "exec"
     /\ cls \in { "RuntimeFailure", "DependencyFailure", "InternalError" })
        => retry_count >= max_code_retries

\* C5: once an execute_code call is over, the transient file it created is
\* gone, unless the delete itself failed.
C5_TempFileDeleted ==
    (epc = "none" /\ tempFile = "exists")
        => (callLog /= << >> /\ Last(callLog) = HostEvent("unlink", "fail"))

\* C6: no execute_code call ends by an exception that reaches its caller.
C6_AlwaysReturnsReport ==
    \A i \in DOMAIN log : log[i] /= Event("abort", "execute_code")

\* C7: in one execute_code call the interpreter is launched after every
\* package-manager invocation of the call, and only when every extracted
\* dependency was installed; a call in which a dependency failed returns the
\* DependencyFailure report with status -1 and launches nothing.
C7_LaunchAfterInstalls ==
    /\ \A i \in DOMAIN callLog :
           callLog[i].ev = "launch" =>
               /\ \A j \in DOMAIN callLog : callLog[j].ev = "pip" => j < i
               /\ pending = {}
               /\ failed_dependencies = << >>
               /\ \A dep \in dependencies :
                      \E j \in 1..(i - 1) :
                          /\ callLog[j].ev = "pip"
                          /\ callLog[j].res = "ok"
                          /\ Last(callLog[j].args) = InstallName(dep)
    /\ (epc = "none" /\ failed_dependencies /= << >>) =>
           /\ cls = "DependencyFailure"
           /\ exit_code = -1
           /\ \A i \in DOMAIN callLog : callLog[i].ev = "pip"

\* The interpreter launched after the installs of two dependencies.
C7_Witness ==
    /\ Cardinality(dependencies) = 2
    /\ \E i \in DOMAIN callLog : callLog[i].ev = "launch"
    /\ \E i \in DOMAIN callLog : callLog[i].ev = "pip" /\ callLog[i].res = "fail"

\* The package-manager invocations among a sequence of host events.
PipCalls(q) == { i \in DOMAIN q : q[i].ev = "pip" }

\* C8: one _install_dependency call invokes the package manager at most
\* twice; the second invocation follows a first one that returned non-zero
\* and is the one with --no-cache-dir.
C8_AtMostTwoInvocations ==
    /\ Len(outcome.calls) <= 2
    /\ Len(outcome.calls) >= 1 =>
           outcome.calls[1].args = << "install", Last(outcome.calls[1].args) >>
    /\ Len(outcome.calls) = 2 =>
           /\ outcome.calls[1].res = "fail"
           /\ outcome.calls[2].args =
                  << "install", "--no-cache-dir", Last(outcome.calls[1].args) >>
    /\ \A dep \in dependencies :
           Cardinality({ i \in PipCalls(callLog) :
                           Last(callLog[i].args) = InstallName(dep) }) <= 2

\* A first attempt and a retry that both failed.
C8_Witness ==
    /\ Len(outcome.calls) = 2
    /\ outcome.calls[2].res = "fail"
    /\ ~outcome.success

\* C9: after a retry, what _install_dependency returns is the retry's
\* outcome: its success flag, and for a failed retry the diagnostic text made
\* of the retry's package-manager output.
C9_RetryOutcomeReported ==
    Len(outcome.calls) = 2 =>
        /\ outcome.success = (outcome.calls[2].res = "ok")
        /\ outcome.calls[2].res = "fail" =>
               outcome.error_msg =
                   << "Failed to install", outcome.dep, ". Pip:" >> \o outcome.calls[2].out

\* C10: every package-manager invocation of _install_dependency names the
\* package PACKAGE_INSTALL_MAPPING gives for the module, and the module
\* itself when the mapping has no entry for it.
C10_MappedNameInstalled ==
    \A i \in DOMAIN outcome.calls :
        IF outcome.dep \in DOMAIN PACKAGE_INSTALL_MAPPING
        THEN /\ Last(outcome.calls[i].args) = PACKAGE_INSTALL_MAPPING[outcome.dep]
             /\ Last(outcome.calls[i].args) /= outcome.dep
        ELSE Last(outcome.calls[i].args) = outcome.dep

\* PIL installed as pillow, first attempt and retry.
C10_Witness ==
    /\ outcome.dep = "PIL"
    /\ Len(outcome.calls) = 2
    /\ Last(outcome.calls[2].args) = "pillow"

\* The module a source line names: the word after a leading import or from.
NamedModules(line) ==
    LET words == SelectSeq(line, LAMBDA tok : tok \notin Whitespace)
    IN  IF Len(words) >= 2 /\ words[1] \in { "import", "from" }
        THEN { words[2] }
        ELSE {}

\* C11: a snippet whose import lines name only modules of
\* STANDARD_LIBRARY_MODULES has no dependency and its execute_code call makes
\* no package-manager invocation; _install_dependency called directly with an
\* exempt name reports success without invoking the package manager.
C11_ExemptNeverInstalled ==
    /\ (/\ pc \in { "executing", "loop", "done" }
        /\ \A i \in 1..Len(snippet) : NamedModules(snippet[i]) \subseteq STANDARD_LIBRARY_MODULES)
       => (dependencies = {} /\ PipCalls(callLog) = {})
    /\ (pc = "returned" /\ outcome.dep \in STANDARD_LIBRARY_MODULES)
       => (outcome.success /\ outcome.calls = << >> /\ callLog = << >>)

C11_Witness ==
    /\ pc = "loop"
    /\ cls = "Success"
    /\ \E i \in 1..Len(snippet) : NamedModules(snippet[i]) = { "os" }
    /\ \A i \in 1..Len(snippet) : NamedModules(snippet[i]) \subseteq STANDARD_LIBRARY_MODULES
    /\ PipCalls(callLog) = {}

\* The package-manager invocations of the call that install dep.
InstallsOf(dep) ==
    { i \in PipCalls(callLog) : callLog[i].args[Len(callLog[i].args)] = InstallName(dep) }

Installed(dep) == \E i \in InstallsOf(dep) : callLog[i].res = "ok"

\* C12: when execute_code returns a dependency-failure report, every
\* extracted dependency was attempted, the report lists exactly the
\* dependencies whose installation failed, each with a diagnostic naming it,
\* and lists no dependency that was installed.
C12_FailuresAggregated ==
    (cls = "DependencyFailure" /\ epc = "none") =>
        /\ exit_code = -1
        /\ \A d \in dependencies :
             /\ InstallsOf(d) /= {}
             /\ Installed(d) <=> ~Contains(output, << "-", d, ":" >>)
             /\ ~Installed(d) =>
                  \/ Contains(output, << "-", d, ":", "Failed to install", d, ". Pip:" >>)
                  \/ Contains(output, << "-", d, ":", "Error during pip install for", d >>)
        /\ Cardinality({ i \in 1..Len(output) : output[i] = "-" })
             = Cardinality({ d \in dependencies : ~Installed(d) })

\* A first dependency fails, a later one is still installed, and the
\* report lists the first only.
C12_Witness ==
    /\ cls = "DependencyFailure"
    /\ epc = "none"
    /\ Cardinality(dependencies) = 2
    /\ Len(failed_dependencies) = 1
    /\ \E i \in PipCalls(callLog), j \in PipCalls(callLog) :
         /\ i < j
         /\ callLog[i].args[Len(callLog[i].args)] = InstallName(failed_dependencies[1].dep)
         /\ callLog[j].res = "ok"
         /\ callLog[j].args[Len(callLog[j].args)] /= InstallName(failed_dependencies[1].dep)

\* The launches of the call in which the child exited.
Exits == { i \in DOMAIN callLog : callLog[i].ev = "launch" /\ callLog[i].res = "exit" }

\* C13: when the child exits with status 0 the report body is exactly its
\* standard output and the status is 0; when it exits with another status the
\* body is never blank -- it contains the error stream, or names the exit
\* status when the error stream is empty or whitespace -- and the status
\* returned is the child's.
C13_ExitReported ==
    \A i \in Exits :
        LET e == callLog[i]
        IN  /\ epc \in { "cleanup", "none" }
            /\ IF e.args = << "0" >>
               THEN output_str = e.out
               ELSE /\ ~IsBlank(output_str)
                    /\ IF IsBlank(e.out)
                       THEN Contains(output_str, e.args)
                       ELSE Contains(output_str, e.out)
            /\ epc = "none" => (output = output_str /\ << ToString(exit_code) >> = e.args)

\* A child that exits with status 2 and a child that writes only a newline
\* before it exits with status 1 are both reported by the exit status.
C13_Witness ==
    /\ epc = "none"
    /\ \E i \in Exits : callLog[i].args = << "1" >> /\ callLog[i].out = << "\n" >>
    /\ Contains(output, << "1" >>)
    /\ exit_code = 1

\* The fix requests of the session whose reply held no code.
NoCodeReplies == { i \in DOMAIN log : log[i].ev = "nocode" }

\* C14: once the reply to a fix request holds no code, the session makes no
\* further execute_code call and sends no further fix request, and
\* retry_count stays what it was when the request was sent, whatever is left
\* of the budget.
C14_NoCodeEndsRepair ==
    \A i \in NoCodeReplies :
        /\ pc \in { "final", "done" }
        /\ \A j \in (i + 1)..Len(log) : log[j].ev \notin { "exec", "fix", "nocode" }
        /\ retry_count + 1 = Cardinality({ j \in 1..i : log[j].ev = "exec" })
        /\ NumFix = retry_count + 1

\* A first fix request is answered without code: the session is over with
\* the whole budget but one request unused.
C14_Witness ==
    /\ pc = "done"
    /\ NoCodeReplies /= {}
    /\ retry_count = 0
    /\ NumExec = 1
    /\ final.kind = "failed"

\* The executions of the session that ended by the timeout.
TimedOutExecs == { i \in DOMAIN log : log[i] = Event("exec", "Timeout") }

\* C15 as stated: from a timed-out execute_code call to the end of the
\* session no message is sent to the agent, neither a fix request nor a
\* result message.
C15_NoMessageAfterTimeout ==
    \A i \in TimedOutExecs :
        /\ \A j \in (i + 1)..Len(log) : log[j].ev \notin { "fix", "final" }
        /\ final = NoFinal

\* C15: from a timed-out execute_code call to the end of the session no fix
\* request is sent and nothing is executed; the one message sent to the agent
\* is the result message, and it is the timeout one.
C15_OnlyTimeoutMessageAfterTimeout ==
    \A i \in TimedOutExecs :
        /\ pc \in { "loop", "final", "done" }
        /\ \A j \in (i + 1)..Len(log) : log[j].ev \notin { "fix", "nocode", "exec" }
        /\ final.kind \in { "none", "timeout" }
        /\ pc = "done" => final.kind = "timeout"
        /\ fix_request.sent => fix_request.cls /= "Timeout"

\* A re-execution times out and the session ends with the timeout message.
C15_Witness ==
    /\ pc = "done"
    /\ TimedOutExecs /= {}
    /\ NumFix >= 1
    /\ Last(log) = Event("final", "timeout")
    /\ final.kind = "timeout"

\* C16: a session in which code was executed at least once ends with its
\* result message built and sent to the agent, on every path -- also when
\* the agent call of a fix request faults.
C16_FinalMessageOnEveryPath ==
    (pc = "done" /\ \E i \in DOMAIN log : log[i].ev = "exec") => final /= NoFinal

\* C17: _ensure_venv invokes the creation command exactly when it finds
\* the interpreter path missing; when the path exists the call creates
\* nothing and leaves the environment in place; every call sets the
\* interpreter and package-manager paths of the platform.
C17_EnsureVenvIdempotent ==
    /\ [](ensure.called =>
            /\ ensure.found => (ensure.created = "none" /\ venvExists)
            /\ venv_python_path =
                 (IF os_name = "nt"
                  THEN << "cwd", ".code_exec_venv", "Scripts", "python.exe" >>
                  ELSE << "cwd", ".code_exec_venv", "bin", "python" >>)
            /\ venv_pip_path =
                 (IF os_name = "nt"
                  THEN << "cwd", ".code_exec_venv", "Scripts", "pip.exe" >>
                  ELSE << "cwd", ".code_exec_venv", "bin", "pip" >>))
    /\ [][(ensure'.called /\ ~ensure.called) =>
            /\ (ensure'.created /= "none") <=> ~venvExists
            /\ venvExists => venvExists']_vars

\* A process started where the environment exists: the call found it and
\* created nothing.
C17_Witness ==
    /\ pc = "constructed"
    /\ ensure = [called |-> TRUE, found |-> TRUE, created |-> "none"]
    /\ venvExists
    /\ venv_pip_path = << "cwd", ".code_exec_venv", "Scripts", "pip.exe" >>

\* C18: when the creation command exits non-zero or cannot be started the
\* process terminates: it has invoked no package manager and executed no
\* snippet, and it does nothing more.
C18_CreationFailureFatal ==
    /\ [](/\ ensure.created \in { "fail", "raise" } => pc = "terminated"
          /\ pc = "terminated" =>
               (callLog = << >> /\ log = << >> /\ epc = "none" /\ final = NoFinal))
    /\ [][pc = "terminated" => pc' = "setup"]_vars

C18_Witness ==
    /\ pc = "terminated"
    /\ ensure.created = "raise"
    /\ ~venvExists

\* C19: in each of the three repair loops a fix request carries the
\* dependency note exactly when the report it asks to repair is the
\* dependency-failure report of execute_code's gate.
C19_NoteIffDependencyFailure ==
    fix_request.sent => (fix_request.note <=> fix_request.cls = "DependencyFailure")

\* C20: when the wait for the child times out, execute_code issues the
\* forced termination of the child before it returns, and its report body
\* states the limit of 60 seconds.
C20_TimeoutKillsChild ==
    (cls = "Timeout" /\ epc \in { "cleanup", "none" }) =>
        /\ \E i \in DOMAIN callLog : callLog[i].ev = "kill"
        /\ Contains(output_str, << "timed out", "(", "60", "s)" >>)

\* C21: the result message is the timeout one only when the last execution
\* ended by the timeout; when the last report is a runtime failure or a
\* dependency failure it is the failure message quoting that report, whatever
\* the report's body says.
C21_TimeoutMessageOnlyOnTimeout ==
    final /= NoFinal =>
        /\ final.kind = "timeout" => cls = "Timeout"
        /\ cls \in { "RuntimeFailure", "DependencyFailure" } =>
             final = [kind |-> "failed", body |-> output]

\* The executions of the session that returned status 0.
SucceededExecs == { i \in DOMAIN log : log[i] = Event("exec", "Success") }

\* C22: once an execute_code call has returned status 0, first execution or
\* retry, the session sends no fix request and executes nothing more, and
\* its result message is the success one carrying the standard output that
\* execution captured.
C22_SuccessTerminal ==
    \A i \in SucceededExecs :
        /\ pc \in { "loop", "final", "done" }
        /\ \A j \in (i + 1)..Len(log) : log[j].ev \notin { "fix", "nocode", "exec" }
        /\ exit_code = 0
        /\ \E k \in Exits : callLog[k].args = << "0" >> /\ output = callLog[k].out
        /\ final /= NoFinal => final = [kind |-> "success", body |-> output]
        /\ (pc = "done" /\ Last(log).ev /= "abort") => Last(log) = Event("final", "success")

\* A repaired snippet succeeds and prints "job timed out": the session ends
\* with the success message carrying that output.
C22_Witness ==
    /\ pc = "done"
    /\ SucceededExecs /= {}
    /\ NumFix = 2
    /\ final = [kind |-> "success", body |-> << "job", "timed out" >>]
    /\ Last(log) = Event("final", "success")

\* The execute_code calls of the session that have returned.
Returned == { i \in DOMAIN log : log[i].ev = "exec" }

\* C23: retry_count is 0 until the first snippet has run, is then the number
\* of re-executions that have returned, and the retry number handed to a
\* re-execution is retry_count + 1; it changes only by one, at the return of
\* a re-execution, or back to 0 for a new session.
C23_RetryCountBookkeeping ==
    /\ [](/\ Returned = {} => retry_count = 0
          /\ Returned /= {} => retry_count = Cardinality(Returned) - 1
          /\ pc = "executing" =>
               retry_arg = (IF Returned = {} THEN 0 ELSE retry_count + 1))
    /\ [][retry_count' /= retry_count =>
            \/ /\ retry_count' = retry_count + 1
               /\ pc = "executing" /\ pc' = "loop"
               /\ retry_arg = retry_count + 1
            \/ /\ retry_count' = 0
               /\ pc' \in { "input", "setup" }]_vars

\* Two repaired snippets have been re-executed and a third is running.
C23_Witness ==
    /\ pc = "executing"
    /\ retry_count = 2
    /\ retry_arg = 3
    /\ Cardinality(Returned) = 3

\* C24: whether or not the transient file could be deleted, the finally
\* block is followed by the return of the report body and of the exit status
\* fixed before it: nothing is raised and the pair does not depend on the
\* delete.
C24_UnlinkFailureNotEscalated ==
    [][(epc = "cleanup" /\ epc' = "none") =>
        /\ pc' = "loop"
        /\ output' = output_str
        /\ IF Exits = {}
           THEN exit_code' = -1
           ELSE \A i \in Exits : callLog[i].args = << ToString(exit_code') >>
        /\ Last(log').ev = "exec"]_vars

\* The delete failed, the file is still there, and the call has returned
\* its runtime-failure report.
C24_Witness ==
    /\ pc = "loop"
    /\ epc = "none"
    /\ callLog /= << >>
    /\ Last(callLog) = HostEvent("unlink", "fail")
    /\ tempFile = "exists"
    /\ cls = "RuntimeFailure"
    /\ exit_code = 2

\* C25: for every snippet the extraction succeeds; its result holds no
\* name of STANDARD_LIBRARY_MODULES and only names that are the first dotted
\* component of the module a line of the snippet imports; a line on which
\* the name is followed by a comma does not match and contributes nothing.
C25_ExtractedNamesSound ==
    /\ pc = "call" => ENABLED CallExecuteCode
    /\ pc \in { "executing", "loop", "done" } =>
        /\ dependencies \cap STANDARD_LIBRARY_MODULES = {}
        /\ \A d \in dependencies : \E i \in 1..Len(snippet) : NamedModules(snippet[i]) = { d }
        /\ "numpy" \in dependencies =>
             \E i \in 1..Len(snippet) : snippet[i] = << "import", " ", "numpy" >>
        /\ "Image" \notin dependencies
        /\ "path" \notin dependencies

\* A line that does not match next to one that does.
C25_Witness ==
    /\ pc = "executing"
    /\ snippet = << << "import", " ", "numpy", ",", "pandas" >>,
                    << " ", "from", " ", "PIL", " ", "import", " ", "Image" >> >>
    /\ dependencies = { "PIL" }

\* C26: in a session at most max_code_retries fix requests are sent and at
\* most 1 + max_code_retries execute_code calls are made, and every fix
\* request directly follows an execution that returned a non-zero status
\* other than by the timeout.
C26_RequestsAndExecutionsBounded ==
    /\ NumFix <= max_code_retries
    /\ NumExec <= 1 + max_code_retries
    /\ NumExec <= 1 + NumFix
    /\ \A i \in DOMAIN log :
         log[i].ev = "fix" => (i > 1 /\ log[i - 1] = Event("exec", "Failure"))
    /\ fix_request.sent => (NumFix >= 1 /\ fix_request.cls \notin { "none", "Success", "Timeout" })

\* The budget used up: three fix requests, four executions, the last one
\* failed too.
C26_Witness ==
    /\ pc = "done"
    /\ NumFix = max_code_retries
    /\ NumExec = 1 + max_code_retries
    /\ exit_code /= 0
    /\ final.kind = "failed"

\* A fault left the handler: a call did not return.
Faulted == \E i \in DOMAIN log : log[i].ev = "abort"

\* C27: a session that has started executing is eventually over; when every
\* call returned it is over with its result message sent; and each turn of
\* the loop that re-executes is made with budget left and hands on a retry
\* number one above the count, so that the loop cannot repeat for ever.
C27_SessionTerminates ==
    /\ (pc \in { "executing", "loop", "final" }) ~> (pc = "done")
    /\ []((pc = "done" /\ Returned /= {} /\ ~Faulted) =>
            (final /= NoFinal /\ Last(log).ev = "final"))
    /\ [][(pc = "loop" /\ pc' = "executing") =>
            (retry_count < max_code_retries /\ retry_arg' = retry_count + 1)]_vars

\* The budget is used up without a fault and the session is over with its
\* failure message sent.
C27_Witness ==
    /\ pc = "done"
    /\ ~Faulted
    /\ retry_count = max_code_retries
    /\ Last(log) = Event("final", "failed")

\* C28: every execute_code call ends by returning a report; the status is
\* 0 exactly when the child was launched and exited with status 0, and a
\* dependency failure, a timeout and a fault before the child's result is
\* available all return -1, so that every non-success report has a non-zero
\* status.
C28_StatusZeroIffChildExitedZero ==
    (epc = "none" /\ callLog /= << >> /\ pc /= "returned") =>
        /\ cls /= "none"
        /\ exit_code = 0 <=> \E i \in Exits : callLog[i].args = << "0" >>
        /\ (cls \in { "DependencyFailure", "Timeout", "InternalError" } \/ Exits = {})
             => exit_code = -1
        /\ cls /= "Success" => exit_code /= 0

====
